---- MODULE Spec2Model ----
(***************************************************************************)
(* Grading engine of the report-card backend (package grading):            *)
(* PrimaryGrader, NCDCGrader and UACEGrader, modelled as one call per      *)
(* behaviour: Init draws the operation and its arguments, the action of    *)
(* the operation applies it and stores the GradeResult (or the code).      *)
(* Further specifications run grader calls on concurrent goroutines and    *)
(* the requests of ResultHandler (package handlers) against the            *)
(* subject_results table.                                                  *)
(* The last sections model the users (UserHandler,                         *)
(* UserAssignmentService), authentication (AuthService) and the setup of   *)
(* a school (SchoolSetupService) against the tables they write.            *)
(***************************************************************************)
EXTENDS Integers, Sequences, FiniteSets, Bags, TLC

VARIABLES
    op,      \* the method called
    args,    \* its arguments, a sequence of numbers
    pc,      \* "call" before the method ran, "done" after it returned
    res,     \* the value returned (a code or a GradeResult)
    mapped,  \* the marks handed to MapMarkToCode during the call, in order
    fusion,  \* how the build evaluates x*y + z on float64 (fixed per build)
    calls,   \* the grader calls running on concurrent goroutines
    heap,    \* the slices those calls allocated, by address
    requests,        \* the HTTP requests in flight, one per client
    subject_results, \* the rows of table subject_results
    db,       \* the other tables of the database and its clock
    sessions  \* the service calls in flight, one per caller

\* the state of the goroutines and of the request handlers
others == <<calls, heap, requests, subject_results, db, sessions>>

vars ==
    <<op, args, pc, res, mapped, fusion, calls, heap, requests, subject_results,
      db, sessions>>

(***************************************************************************)
(* Bounds of the model.                                                    *)
(***************************************************************************)
MaxMark == 100        \* MapMarkToCode is applied to every mark 0..MaxMark
NumMarkSteps == 14    \* paper marks are 25, 30, ..., 25 + 5*NumMarkSteps
MaxPapers == 5        \* paper sequences have 0..MaxPapers entries
MaxLevelNumber == 8   \* numbered levels are P0..P8, S0..S8 and p0.., s0..
NumPermSteps == 4     \* permuted marks are 35, 45, ..., 35 + 10*NumPermSteps
NumGoroutines == 2    \* goroutines calling the graders concurrently
NumClients == 2       \* clients sending requests to ResultHandler concurrently
MaxUsers == 2         \* table users holds at most MaxUsers rows
NumSessions == 2      \* sessions calling the services concurrently
MaxTime == 2          \* the clock runs from second 0 to second MaxTime
RefreshExpiry == 1    \* a refresh token expires RefreshExpiry seconds after issue
MaxCopies == 2        \* no setup begins once a key has MaxCopies rows

Marks == 0..MaxMark
PaperMarks == {25 + 5 * k : k \in 0..NumMarkSteps}
\* marks used for sequences longer than the grader accepts
ExtraPaperMarks == {35, 80}

SeqsOfLen(S, n) == [1..n -> S]
\* <<caMax, examMax>> and <<schoolBasedMax, externalMax>> of the calls; the
\* marks run over 0..max
PrimaryMaxima == {<<40, 60>>, <<100, 100>>}
NCDCMaxima == {<<40, 60>>, <<100, 100>>}
WeightedInputs(maxima) ==
    UNION {{<<a, b, mx[1], mx[2]>> : a \in 0..mx[1], b \in 0..mx[2]} : mx \in maxima}

\* marks of the papers that are graded in two orders, and the pairs of a
\* sequence of 2..4 of them with each of its rearrangements
PermMarks == {35 + 10 * k : k \in 0..NumPermSteps}
Rearranged(marks, perm) == [i \in 1..Len(marks) |-> marks[perm[i]]]
PermutedInputs(n) ==
    {<<marks, perm>> : marks \in SeqsOfLen(PermMarks, n), perm \in Permutations(1..n)}

\* Level identifiers: a letter and a number, the nursery levels of the
\* school setup, the school types, the empty string and near misses
LevelPrefixes == {"P", "S", "p", "s"}
NumberedLevels == {pre \o ToString(n) : pre \in LevelPrefixes, n \in 0..MaxLevelNumber}
NamedLevels == {"", "Baby", "Middle", "Top", "Nursery", "Primary", "Secondary",
                "P", "S", "P4 ", " S1", "S 5", "P04", "S10", "Senior 5"}
Levels == NumberedLevels \cup NamedLevels

PaperInputs ==
    UNION {SeqsOfLen(PaperMarks, n) : n \in 0..4}
    \cup UNION {SeqsOfLen(ExtraPaperMarks, n) : n \in 5..MaxPapers}

(***************************************************************************)
(* Rule versions and their fingerprint.                                    *)
(***************************************************************************)
RuleVersionPrimary == "PRIMARY_V1"
\* the lower-secondary grader stamped with the lower-primary rule version
RuleVersionNCDC_Primary == "PRIMARY_V1"

RuleVersionNCDC == "NCDC_V1"
RuleVersionUACE == "UACE_V1"

\* fmt.Sprintf("%x", sha256.Sum256([]byte(version))[:8]) on the three
\* rule versions of the package; any other string gets a digest of its own.
hashRuleVersion(version) ==
    CASE version = "PRIMARY_V1" -> "d33c40990ad4c1d5"
      [] version = "NCDC_V1" -> "b708cb3ca78c1581"
      [] version = "UACE_V1" -> "39dd98f5015b5fe0"
      [] OTHER -> "sha256:" \o version

\* A nil map, as in a GradeResult built without PaperCodes.
NilMap == << >>

GradeResult(grade, reason, hash, paperCodes) ==
    [FinalGrade |-> grade, ComputationReason |-> reason,
     RuleVersionHash |-> hash, PaperCodes |-> paperCodes]

(***************************************************************************)
(* float64 arithmetic of the weighted graders.  The values the graders     *)
(* compute from marks and maxima below 2^11 are zero or lie between 2^-11   *)
(* and 2^20, so every float64 among them is a multiple of 2^-100: a value   *)
(* is written in fixed point as NumLimbs digits of LimbBits bits each, the  *)
(* integer part first, and no intermediate result leaves the integers TLC   *)
(* has.  Every operation computes the exact result and rounds it to 53      *)
(* significant bits, ties to even, as IEEE 754 binary64 does.               *)
(***************************************************************************)
MantissaBits == 53
LimbBits == 20
NumLimbs == 6
Base == 2 ^ LimbBits
Limbs == 1..NumLimbs

\* the lowest bit of digit i, bits counted from the least significant (0)
LowBit(i) == (NumLimbs - i) * LimbBits

RECURSIVE Carry(_, _, _)
\* digits that outgrew the base, brought back below it from digit i up
Carry(w, i, c) ==
    IF i = 0 THEN << >>
    ELSE LET t == w[i] + c IN Carry(w, i - 1, t \div Base) \o <<t % Base>>

Normalize(w) == Carry(w, NumLimbs, 0)

FloatZero == [i \in Limbs |-> 0]
FloatOfInt(n) == [i \in Limbs |-> IF i = 1 THEN n ELSE 0]

\* the number of bits of the natural n < Base
Width(n) == IF n = 0 THEN 0 ELSE CHOOSE k \in 1..LimbBits : 2 ^ (k - 1) <= n /\ n < 2 ^ k

\* the position above the most significant bit of x (0 for zero)
BitLength(x) ==
    IF x = FloatZero THEN 0
    ELSE LET top == CHOOSE i \in Limbs : x[i] # 0 /\ \A j \in 1..(i - 1) : x[j] = 0
         IN LowBit(top) + Width(x[top])

\* x modulo 2^d
LowPart(x, d) ==
    [i \in Limbs |->
        IF LowBit(i) + LimbBits <= d THEN x[i]
        ELSE IF LowBit(i) >= d THEN 0
        ELSE x[i] % (2 ^ (d - LowBit(i)))]

Bit(x, k) == (x[NumLimbs - (k \div LimbBits)] \div (2 ^ (k % LimbBits))) % 2

Pow2(d) == [i \in Limbs |-> IF LowBit(i) = d - (d % LimbBits) THEN 2 ^ (d % LimbBits) ELSE 0]

\* the exact value x (and more below its last bit when sticky) rounded to
\* the nearest float64, ties to even
Round(x, sticky) ==
    LET d == BitLength(x) - MantissaBits IN
    IF d <= 0 THEN x
    ELSE LET low == LowPart(x, d)
             kept == [i \in Limbs |-> x[i] - low[i]]
             rest == sticky \/ LowPart(x, d - 1) # FloatZero
             up == Bit(x, d - 1) = 1 /\ (rest \/ Bit(x, d) = 1)
         IN IF up THEN Normalize([i \in Limbs |-> kept[i] + Pow2(d)[i]])
            ELSE kept

RECURSIVE DivDigits(_, _, _)
\* the k digits after the point of r / b, r < b, and the remainder left
DivDigits(r, b, k) ==
    IF k = 0 THEN [digits |-> << >>, rem |-> r]
    ELSE LET t == DivDigits((r * Base) % b, b, k - 1)
         IN [digits |-> <<(r * Base) \div b>> \o t.digits, rem |-> t.rem]

\* float64(a) / float64(b) for naturals a and b >= 1
FloatDivInts(a, b) ==
    LET d == DivDigits(a % b, b, NumLimbs - 1)
    IN Round(<<a \div b>> \o d.digits, d.rem # 0)

\* the exact product of a float and a small natural, not yet rounded
ExactMul(x, k) == Normalize([i \in Limbs |-> x[i] * k])

\* the exact sum of two values, not yet rounded
ExactAdd(x, y) == Normalize([i \in Limbs |-> x[i] + y[i]])

FloatMul(x, k) == Round(ExactMul(x, k), FALSE)
FloatAdd(x, y) == Round(ExactAdd(x, y), FALSE)

\* x >= float64(n) for a natural n
FloatGE(x, n) == x[1] >= n

(***************************************************************************)
(* Weighted graders.  The float64 parameters are drawn from the naturals.  *)
(* The language lets a build fuse x*y + z into one operation rounded once  *)
(* (an explicit conversion would forbid it, and the code has none), so     *)
(* total is the sum of the two rounded products, or one product kept       *)
(* exact and added to the other rounded one.                               *)
(***************************************************************************)
Fusions == {"none", "first", "second"}

\* (a / maxA) * wA + (b / maxB) * wB as the build evaluates it
WeightedSum(a, maxA, wA, b, maxB, wB) ==
    LET qa == FloatDivInts(a, maxA)
        qb == FloatDivInts(b, maxB)
        sum == CASE fusion = "first" ->
                      ExactAdd(ExactMul(qa, wA), FloatMul(qb, wB))
                 [] fusion = "second" ->
                      ExactAdd(FloatMul(qa, wA), ExactMul(qb, wB))
                 [] OTHER -> ExactAdd(FloatMul(qa, wA), FloatMul(qb, wB))
    IN Round(sum, FALSE)

PrimaryComputeGrade(caMarks, examMarks, caMax, examMax) ==
    LET caPercent == FloatMul(FloatDivInts(caMarks, caMax), 40)
        examPercent == FloatMul(FloatDivInts(examMarks, examMax), 60)
        total == WeightedSum(caMarks, caMax, 40, examMarks, examMax, 60)
        grade == IF FloatGE(total, 80) THEN "A"
                 ELSE IF FloatGE(total, 65) THEN "B"
                 ELSE IF FloatGE(total, 50) THEN "C"
                 ELSE IF FloatGE(total, 35) THEN "D"
                 ELSE "E"
        reason == [rule |-> "CA (40%), Exam (60%)",
                   marks |-> <<caMarks, examMarks>>,
                   maxima |-> <<caMax, examMax>>,
                   percents |-> <<caPercent, examPercent>>,
                   total |-> total, grade |-> grade]
    IN GradeResult(grade, reason, hashRuleVersion(RuleVersionPrimary), NilMap)

NCDCComputeGrade(schoolBasedMarks, externalMarks, schoolBasedMax, externalMax) ==
    LET sbPercent == FloatMul(FloatDivInts(schoolBasedMarks, schoolBasedMax), 20)
        extPercent == FloatMul(FloatDivInts(externalMarks, externalMax), 80)
        total == WeightedSum(schoolBasedMarks, schoolBasedMax, 20,
                             externalMarks, externalMax, 80)
        grade == IF FloatGE(total, 80) THEN "A"
                 ELSE IF FloatGE(total, 65) THEN "B"
                 ELSE IF FloatGE(total, 50) THEN "C"
                 ELSE IF FloatGE(total, 35) THEN "D"
                 ELSE "E"
        reason == [rule |-> "School-Based (20%), External (80%)",
                   marks |-> <<schoolBasedMarks, externalMarks>>,
                   maxima |-> <<schoolBasedMax, externalMax>>,
                   percents |-> <<sbPercent, extPercent>>,
                   total |-> total, grade |-> grade]
    IN GradeResult(grade, reason, hashRuleVersion(RuleVersionNCDC), NilMap)

(***************************************************************************)
(* UACEGrader                                                              *)
(***************************************************************************)
\* MapMarkToCode with exclusive lower bounds
MapMarkToCode_Exclusive(marks) ==
    IF marks > 75 THEN 1
    ELSE IF marks > 70 THEN 2
    ELSE IF marks > 65 THEN 3
    ELSE IF marks > 60 THEN 4
    ELSE IF marks > 55 THEN 5
    ELSE IF marks > 50 THEN 6
    ELSE IF marks > 45 THEN 7
    ELSE IF marks > 40 THEN 8
    ELSE 9

\* MapMarkToCode with the codes of two neighbouring ranges exchanged
MapMarkToCode_Swapped(marks) ==
    IF marks >= 75 THEN 1
    ELSE IF marks >= 70 THEN 2
    ELSE IF marks >= 65 THEN 3
    ELSE IF marks >= 60 THEN 5
    ELSE IF marks >= 55 THEN 4
    ELSE IF marks >= 50 THEN 6
    ELSE IF marks >= 45 THEN 7
    ELSE IF marks >= 40 THEN 8
    ELSE 9

MapMarkToCode(marks) ==
    IF marks >= 75 THEN 1
    ELSE IF marks >= 70 THEN 2
    ELSE IF marks >= 65 THEN 3
    ELSE IF marks >= 60 THEN 4
    ELSE IF marks >= 55 THEN 5
    ELSE IF marks >= 50 THEN 6
    ELSE IF marks >= 45 THEN 7
    ELSE IF marks >= 40 THEN 8
    ELSE 9

\* an insertion that does not look for the place of x
Insert_AtFront(x, s) == <<x>> \o s

\* an insertion that keeps the slice descending
RECURSIVE Insert_Descending(_, _)
Insert_Descending(x, s) ==
    IF s = << >> THEN <<x>>
    ELSE IF x >= Head(s) THEN <<x>> \o s
    ELSE <<Head(s)>> \o Insert_Descending(x, Tail(s))

\* sort.Ints: ascending, by insertion
RECURSIVE Insert(_, _)
Insert(x, s) ==
    IF s = << >> THEN <<x>>
    ELSE IF x <= Head(s) THEN <<x>> \o s
    ELSE <<Head(s)>> \o Insert(x, Tail(s))

\* the codes left in paper order
SortInts_Unsorted(s) == s

RECURSIVE SortInts(_)
SortInts(s) ==
    IF s = << >> THEN << >> ELSE Insert(Head(s), SortInts(Tail(s)))

\* sort.Ints applied to the code slice itself
CopyAndSort_InPlace(codes) ==
    [codes |-> SortInts(codes), sortedCodes |-> SortInts(codes)]

\* sortedCodes := make; copy(sortedCodes, codes); sort.Ints(sortedCodes):
\* the two slices afterwards
CopyAndSort(codes) ==
    [codes |-> codes, sortedCodes |-> SortInts(codes)]

\* The second value of the computeNPapers functions: the format string that
\* fired and its arguments.
Reason(rule, bound, sum) == [rule |-> rule, bound |-> bound, sum |-> sum]

\* compute2Papers with exclusive upper bounds
compute2Papers_Exclusive(codes) ==
    LET sum == codes[1] + codes[2] IN
    IF sum < 6 THEN <<"A", Reason("Sum <=", 6, sum)>>
    ELSE IF sum < 10 THEN <<"B", Reason("Sum <=", 10, sum)>>
    ELSE IF sum < 12 THEN <<"C", Reason("Sum <=", 12, sum)>>
    ELSE IF sum < 15 THEN <<"D", Reason("Sum <=", 15, sum)>>
    ELSE IF sum < 18 THEN <<"E", Reason("Sum <=", 18, sum)>>
    ELSE <<"O", Reason("Sum >", 18, sum)>>

compute2Papers(codes) ==
    LET sum == codes[1] + codes[2] IN
    IF sum <= 6 THEN <<"A", Reason("Sum <=", 6, sum)>>
    ELSE IF sum <= 10 THEN <<"B", Reason("Sum <=", 10, sum)>>
    ELSE IF sum <= 12 THEN <<"C", Reason("Sum <=", 12, sum)>>
    ELSE IF sum <= 15 THEN <<"D", Reason("Sum <=", 15, sum)>>
    ELSE IF sum <= 18 THEN <<"E", Reason("Sum <=", 18, sum)>>
    ELSE <<"O", Reason("Sum >", 18, sum)>>

\* compute3Papers with the exception on the two worst codes
compute3Papers_WorstTwo(codes) ==
    LET best2Sum == codes[1] + codes[2] IN
    IF codes[2] = 9 /\ codes[3] = 9 /\ codes[1] <= 7
    THEN <<"E", [rule |-> "Science exception", bound |-> 7,
                 sum |-> best2Sum, codes |-> codes]>>
    ELSE IF best2Sum <= 6 THEN <<"A", Reason("Best 2 sum <=", 6, best2Sum)>>
    ELSE IF best2Sum <= 10 THEN <<"B", Reason("Best 2 sum <=", 10, best2Sum)>>
    ELSE IF best2Sum <= 12 THEN <<"C", Reason("Best 2 sum <=", 12, best2Sum)>>
    ELSE IF best2Sum <= 15 THEN <<"D", Reason("Best 2 sum <=", 15, best2Sum)>>
    ELSE IF best2Sum <= 18 THEN <<"E", Reason("Best 2 sum <=", 18, best2Sum)>>
    ELSE <<"O", Reason("Best 2 sum >", 18, best2Sum)>>

compute3Papers(codes) ==
    LET best2Sum == codes[1] + codes[2] IN
    IF codes[1] = 9 /\ codes[2] = 9 /\ codes[3] <= 7
    THEN <<"E", [rule |-> "Science exception", bound |-> 7,
                 sum |-> best2Sum, codes |-> codes]>>
    ELSE IF best2Sum <= 6 THEN <<"A", Reason("Best 2 sum <=", 6, best2Sum)>>
    ELSE IF best2Sum <= 10 THEN <<"B", Reason("Best 2 sum <=", 10, best2Sum)>>
    ELSE IF best2Sum <= 12 THEN <<"C", Reason("Best 2 sum <=", 12, best2Sum)>>
    ELSE IF best2Sum <= 15 THEN <<"D", Reason("Best 2 sum <=", 15, best2Sum)>>
    ELSE IF best2Sum <= 18 THEN <<"E", Reason("Best 2 sum <=", 18, best2Sum)>>
    ELSE <<"O", Reason("Best 2 sum >", 18, best2Sum)>>

\* compute4Papers with an exclusive last bound
compute4Papers_Exclusive(codes) ==
    LET best2Sum == codes[1] + codes[2] IN
    IF best2Sum <= 6 THEN <<"A", Reason("Best 2 sum <=", 6, best2Sum)>>
    ELSE IF best2Sum <= 10 THEN <<"B", Reason("Best 2 sum <=", 10, best2Sum)>>
    ELSE IF best2Sum <= 12 THEN <<"C", Reason("Best 2 sum <=", 12, best2Sum)>>
    ELSE IF best2Sum <= 15 THEN <<"D", Reason("Best 2 sum <=", 15, best2Sum)>>
    ELSE IF best2Sum < 18 THEN <<"E", Reason("Best 2 sum <=", 18, best2Sum)>>
    ELSE <<"O", Reason("Best 2 sum >", 18, best2Sum)>>

compute4Papers(codes) ==
    LET best2Sum == codes[1] + codes[2] IN
    IF best2Sum <= 6 THEN <<"A", Reason("Best 2 sum <=", 6, best2Sum)>>
    ELSE IF best2Sum <= 10 THEN <<"B", Reason("Best 2 sum <=", 10, best2Sum)>>
    ELSE IF best2Sum <= 12 THEN <<"C", Reason("Best 2 sum <=", 12, best2Sum)>>
    ELSE IF best2Sum <= 15 THEN <<"D", Reason("Best 2 sum <=", 15, best2Sum)>>
    ELSE IF best2Sum <= 18 THEN <<"E", Reason("Best 2 sum <=", 18, best2Sum)>>
    ELSE <<"O", Reason("Best 2 sum >", 18, best2Sum)>>

\* fmt.Sprintf("Paper%d", i+1), i the 0-based index: n is i+1
PaperLabel(n) == "Paper" \o ToString(n)

\* the range check without its lower bound
InvalidPaperCount_NoLowerBound(numPapers) == numPapers > 4

\* the range check without its upper bound
InvalidPaperCount_NoUpperBound(numPapers) == numPapers < 2

\* The range check on the paper count
InvalidPaperCount(numPapers) == numPapers < 2 \/ numPapers > 4

\* The marks the conversion loop hands to MapMarkToCode
MarksMapped(paperMarks) ==
    IF InvalidPaperCount(Len(paperMarks)) THEN << >> ELSE paperMarks

ComputeGradeFromPapers(paperMarks) ==
    LET numPapers == Len(paperMarks) IN
    IF InvalidPaperCount(numPapers)
    THEN GradeResult("F",
                     [rule |-> "Invalid number of papers", count |-> numPapers],
                     hashRuleVersion(RuleVersionUACE), NilMap)
    ELSE
      LET codes == [i \in 1..numPapers |-> MapMarkToCode(paperMarks[i])]
          paperCodes ==
              [l \in {PaperLabel(i) : i \in 1..numPapers} |->
                  codes[CHOOSE i \in 1..numPapers : PaperLabel(i) = l]]
          slices == CopyAndSort(codes)
          sortedCodes == slices.sortedCodes
          \* var finalGrade, reason string: the zero values, kept when no
          \* case of the switch matches
          out == CASE numPapers = 2 -> compute2Papers(sortedCodes)
                   [] numPapers = 3 -> compute3Papers(sortedCodes)
                   [] numPapers = 4 -> compute4Papers(sortedCodes)
                   [] OTHER -> <<"", "">>
      IN GradeResult(out[1],
                     [papers |-> paperMarks, codes |-> slices.codes,
                      reason |-> out[2]],
                     hashRuleVersion(RuleVersionUACE), paperCodes)

\* The nil Grader
NilGrader == "nil"

\* GetGrader with a default that falls back to the lower-primary grader
GetGrader_DefaultPrimary(level) ==
    CASE level \in {"P4", "P5", "P6", "P7"} -> "PrimaryGrader"
      [] level \in {"S1", "S2", "S3", "S4"} -> "NCDCGrader"
      [] level \in {"S5", "S6"} -> "UACEGrader"
      [] OTHER -> "PrimaryGrader"

\* The grader of a level, named by its type: &PrimaryGrader{}, &NCDCGrader{},
\* &UACEGrader{} or nil
GetGrader(level) ==
    CASE level \in {"P4", "P5", "P6", "P7"} -> "PrimaryGrader"
      [] level \in {"S1", "S2", "S3", "S4"} -> "NCDCGrader"
      [] level \in {"S5", "S6"} -> "UACEGrader"
      [] OTHER -> NilGrader

(***************************************************************************)
(* The calls.  Graders keep no state: a behaviour is one call, drawn by    *)
(* Init and applied by the action of its method.                           *)
(***************************************************************************)
NoResult == "none"

\* the other tables are empty and the clock is at 0
NoTables ==
    [users |-> {}, refresh_tokens |-> {}, now |-> 0,
     classes |-> EmptyBag, subjects |-> EmptyBag, grading_rules |-> EmptyBag]

\* a single call: no goroutine, no request, an empty table
NoOthers ==
    /\ calls = << >>
    /\ heap = << >>
    /\ requests = << >>
    /\ subject_results = {}
    /\ db = NoTables
    /\ sessions = << >>

InitCommon ==
    /\ pc = "call"
    /\ res = NoResult
    /\ mapped = << >>
    /\ fusion \in Fusions
    /\ NoOthers

InitMapMark ==
    /\ InitCommon
    /\ op = "MapMarkToCode"
    /\ args \in {<<m>> : m \in Marks}

InitPrimary ==
    /\ InitCommon
    /\ op = "PrimaryGrader.ComputeGrade"
    /\ args \in WeightedInputs(PrimaryMaxima)

InitNCDC ==
    /\ InitCommon
    /\ op = "NCDCGrader.ComputeGrade"
    /\ args \in WeightedInputs(NCDCMaxima)

InitPapers ==
    /\ InitCommon
    /\ op = "ComputeGradeFromPapers"
    /\ args \in PaperInputs

CallMapMarkToCode ==
    /\ pc = "call"
    /\ op = "MapMarkToCode"
    /\ res' = MapMarkToCode(args[1])
    /\ mapped' = <<args[1]>>
    /\ pc' = "done"
    /\ UNCHANGED <<op, args, fusion, others>>

CallPrimaryComputeGrade ==
    /\ pc = "call"
    /\ op = "PrimaryGrader.ComputeGrade"
    /\ res' = PrimaryComputeGrade(args[1], args[2], args[3], args[4])
    /\ pc' = "done"
    /\ UNCHANGED <<op, args, mapped, fusion, others>>

CallNCDCComputeGrade ==
    /\ pc = "call"
    /\ op = "NCDCGrader.ComputeGrade"
    /\ res' = NCDCComputeGrade(args[1], args[2], args[3], args[4])
    /\ pc' = "done"
    /\ UNCHANGED <<op, args, mapped, fusion, others>>

CallComputeGradeFromPapers ==
    /\ pc = "call"
    /\ op = "ComputeGradeFromPapers"
    /\ res' = ComputeGradeFromPapers(args)
    /\ mapped' = MarksMapped(args)
    /\ pc' = "done"
    /\ UNCHANGED <<op, args, fusion, others>>

InitGetGrader ==
    /\ InitCommon
    /\ op = "GetGrader"
    /\ args \in {<<level>> : level \in Levels}

CallGetGrader ==
    /\ pc = "call"
    /\ op = "GetGrader"
    /\ res' = GetGrader(args[1])
    /\ pc' = "done"
    /\ UNCHANGED <<op, args, mapped, fusion, others>>

SpecGetGrader == InitGetGrader /\ [][CallGetGrader]_vars

\* MapMarkToCode on two marks, one call after the other
InitMapMarkPair ==
    /\ InitCommon
    /\ op = "MapMarkToCode, MapMarkToCode"
    /\ args \in Marks \X Marks

CallMapMarkToCodePair ==
    /\ pc = "call"
    /\ op = "MapMarkToCode, MapMarkToCode"
    /\ res' = <<MapMarkToCode(args[1]), MapMarkToCode(args[2])>>
    /\ mapped' = args
    /\ pc' = "done"
    /\ UNCHANGED <<op, args, fusion, others>>

SpecMapMarkPair == InitMapMarkPair /\ [][CallMapMarkToCodePair]_vars

\* ComputeGradeFromPapers on the papers in one order, then in another
InitPapersPermuted ==
    /\ InitCommon
    /\ op = "ComputeGradeFromPapers, ComputeGradeFromPapers"
    /\ \E n \in 2..4 : \E inp \in PermutedInputs(n) :
          args = <<inp[1], Rearranged(inp[1], inp[2])>>

CallComputeGradeFromPapersPermuted ==
    /\ pc = "call"
    /\ op = "ComputeGradeFromPapers, ComputeGradeFromPapers"
    /\ res' = <<ComputeGradeFromPapers(args[1]), ComputeGradeFromPapers(args[2])>>
    /\ mapped' = MarksMapped(args[1]) \o MarksMapped(args[2])
    /\ pc' = "done"
    /\ UNCHANGED <<op, args, fusion, others>>

SpecPapersPermuted ==
    InitPapersPermuted /\ [][CallComputeGradeFromPapersPermuted]_vars

\* ComputeGradeFromPapers on some papers, then on the same papers with one
\* mark raised
InitPapersRaised ==
    /\ InitCommon
    /\ op = "ComputeGradeFromPapers, one mark raised"
    /\ \E n \in 2..4 : \E marks \in SeqsOfLen(PermMarks, n) :
       \E i \in 1..n : \E m \in PermMarks :
          /\ m > marks[i]
          /\ args = <<marks, [marks EXCEPT ![i] = m]>>

CallComputeGradeFromPapersRaised ==
    /\ pc = "call"
    /\ op = "ComputeGradeFromPapers, one mark raised"
    /\ res' = <<ComputeGradeFromPapers(args[1]), ComputeGradeFromPapers(args[2])>>
    /\ mapped' = MarksMapped(args[1]) \o MarksMapped(args[2])
    /\ pc' = "done"
    /\ UNCHANGED <<op, args, fusion, others>>

SpecPapersRaised ==
    InitPapersRaised /\ [][CallComputeGradeFromPapersRaised]_vars

\* one call of a grader method
InitGraders ==
    InitMapMark \/ InitPrimary \/ InitNCDC \/ InitPapers \/ InitGetGrader

NextGraders ==
    \/ CallMapMarkToCode
    \/ CallPrimaryComputeGrade
    \/ CallNCDCComputeGrade
    \/ CallComputeGradeFromPapers
    \/ CallGetGrader

SpecGraders == InitGraders /\ [][NextGraders]_vars

(***************************************************************************)
(* ResultHandler (package handlers): the requests POST /results            *)
(* (CreateOrUpdate) and DELETE /results/:id (Delete) of concurrent         *)
(* clients against table subject_results.  The tables the handler only     *)
(* reads are fixed.                                                        *)
(***************************************************************************)
Clients == 1..NumClients

\* table students: two pupils of school sch1 with a class, one without
students ==
    {[id |-> "stuS1", school_id |-> "sch1"],
     [id |-> "stuBaby", school_id |-> "sch1"],
     [id |-> "stuNew", school_id |-> "sch1"]}
\* table enrollments, and the level of each class of table classes
enrollments ==
    {[student_id |-> "stuS1", class_id |-> "clsS1"],
     [student_id |-> "stuBaby", class_id |-> "clsBaby"]}
classes ==
    {[id |-> "clsS1", level |-> "S1", school_id |-> "sch1"],
     [id |-> "clsBaby", level |-> "Baby", school_id |-> "sch1"],
     [id |-> "clsOther", level |-> "S1", school_id |-> "sch2"]}
standard_subjects ==
    { [id |-> "subMath", name |-> "Mathematics", level |-> "P1"],
      [id |-> "subEng", name |-> "English", level |-> "P1"],
      [id |-> "subPhy", name |-> "Physics", level |-> "S5"] }

\* raw_marks["total"]
Totals == {20, 90}

\* What a request carries: the role and school of the user (set by
\* AuthMiddleware) and the JSON body.  The requests that pass every check
\* of the handler, and for each check a request that fails it.
PassingRequests ==
    [user_role : {"teacher", "school_admin"}, school_id : {"sch1"},
     student_id : {"stuS1"}, subject_id : {"subMath"},
     term : {"Term1"}, year : {2025}, total : Totals]
    \cup [user_role : {"school_admin"}, school_id : {"sch1"},
          student_id : {"stuBaby"}, subject_id : {"subMath"},
          term : {"Term1"}, year : {2025}, total : {20}]
FailingRequests ==
    LET rq == [user_role |-> "school_admin", school_id |-> "sch1",
               student_id |-> "stuS1", subject_id |-> "subMath",
               term |-> "Term1", year |-> 2025, total |-> 90]
    IN {[rq EXCEPT !.term = ""], [rq EXCEPT !.year = 0],
        [rq EXCEPT !.student_id = "not-a-uuid"],
        [rq EXCEPT !.subject_id = "not-a-uuid"],
        [rq EXCEPT !.user_role = "system_admin"],
        [rq EXCEPT !.school_id = "sch2"],
        [rq EXCEPT !.student_id = "stuNew"],
        [rq EXCEPT !.subject_id = "subOther"]}
Requests == PassingRequests \cup FailingRequests

\* uuid.Parse succeeds
IsUUID(s) == s # "not-a-uuid"

\* TenantMiddleware: tenant_school_id is the school of the user, and is not
\* set for a system admin
TenantSchoolID(user_role, school_id) ==
    IF user_role = "system_admin" THEN "" ELSE school_id

ErrRecordNotFound == "record not found"
NoError == "nil"

\* The row the handler builds for a new result: the fields it does not name
\* keep their zero value
SubjectResult(id, student_id, subject_id, class_id, term, year, school_id, final_grade, total) ==
    [id |-> id, student_id |-> student_id, subject_id |-> subject_id,
     class_id |-> class_id, term |-> term, year |-> year,
     school_id |-> school_id, final_grade |-> final_grade,
     raw_marks |-> [total |-> total],
     computation_reason |-> "", rule_version_hash |-> "",
     deleted |-> FALSE]

\* var result models.SubjectResult
ZeroResult == SubjectResult(0, "", "", "", "", 0, "", "", 0)

\* the grade of the handler, from raw_marks["total"]
InlineGrade(total) ==
    IF total >= 80 THEN "A"
    ELSE IF total >= 65 THEN "B"
    ELSE IF total >= 50 THEN "C"
    ELSE IF total >= 35 THEN "D"
    ELSE "E"

SameKey(r1, r2) ==
    /\ r1.student_id = r2.student_id
    /\ r1.subject_id = r2.subject_id
    /\ r1.term = r2.term
    /\ r1.year = r2.year

\* a table without the unique index
UniqueIndexViolated_NoIndex(rows, row) == FALSE

\* idx_unique_result on (student_id, subject_id, term, year): the index
\* covers every row of the table, the soft-deleted ones too
UniqueIndexViolated(rows, row) ==
    \E r \in rows : r.id # row.id /\ SameKey(r, row)

\* BaseModel.BeforeCreate: uuid.New(), an id no row has (rows are never
\* removed from the table, Delete marks them)
NewID(rows) == Cardinality(rows) + 1

\* db.Save of a row read earlier: UPDATE ... WHERE id = ? AND deleted_at IS
\* NULL; when that changes no row, the library either leaves the table as it
\* is or, in the versions that fall back to INSERT ... ON CONFLICT (id) DO
\* UPDATE, writes every column of the row.  The set of tables Save may leave.
Save(rows, row) ==
    LET old == {r \in rows : r.id = row.id} IN
    IF \E r \in old : ~r.deleted
    THEN {(rows \ old) \cup {row}}
    ELSE {rows, (rows \ old) \cup {row}}

Idle == [pc |-> "idle"]
Respond(handler, status, body) ==
    [pc |-> "done", handler |-> handler, status |-> status, body |-> body]

\* a handler without the check on teachers
TeacherForbidden_Never(user_role, err) == FALSE

\* Teachers can only create new results, not edit existing ones (line 126)
TeacherForbidden(user_role, err) ==
    user_role = "teacher" /\ err # ErrRecordNotFound

\* CreateOrUpdate up to the query for the existing result (lines 62-129)
CreateOrUpdateLookup(c) ==
    /\ requests[c] = Idle
    /\ \E rq \in Requests :
        LET user_role == rq.user_role
            student_id == rq.student_id
            subject_id == rq.subject_id
            term == rq.term
            year == rq.year
            total == rq.total
            schoolID == TenantSchoolID(user_role, rq.school_id)
            enrolled == {e \in enrollments : e.student_id = student_id}
            found == {r \in subject_results :
                        /\ ~r.deleted
                        /\ r.student_id = student_id /\ r.subject_id = subject_id
                        /\ r.term = term /\ r.year = year}
            err == IF found = {} THEN ErrRecordNotFound ELSE NoError
            reply(status, error) == Respond("CreateOrUpdate", status, error)
        IN requests' = [requests EXCEPT ![c] =
             IF term = "" \/ year = 0
             THEN reply(400, "required")
             ELSE IF ~IsUUID(student_id)
             THEN reply(400, "Invalid student ID")
             ELSE IF ~IsUUID(subject_id)
             THEN reply(400, "Invalid subject ID")
             ELSE IF schoolID = ""
             THEN reply(400, "School ID required")
             ELSE IF ~\E st \in students : st.id = student_id /\ st.school_id = schoolID
             THEN reply(403, "Student not found or access denied")
             ELSE IF enrolled = {}
             THEN reply(400, "Student not enrolled in any class")
             ELSE IF ~\E su \in standard_subjects : su.id = subject_id
             THEN reply(400, "Invalid subject")
             ELSE IF TeacherForbidden(user_role, err)
             THEN reply(403, "Teachers cannot edit existing marks")
             ELSE [pc |-> "write", handler |-> "CreateOrUpdate",
                   user_role |-> user_role,
                   student_id |-> student_id, subject_id |-> subject_id,
                   class_id |-> (CHOOSE e \in enrolled : TRUE).class_id,
                   term |-> term, year |-> year, school_id |-> schoolID,
                   total |-> total,
                   err |-> err,
                   result |-> IF found = {} THEN ZeroResult
                              ELSE CHOOSE r \in found : TRUE]]
    /\ UNCHANGED <<op, args, pc, res, mapped, fusion, calls, heap, subject_results, db, sessions>>

\* CreateOrUpdate from the grade to the response (lines 131-181)
CreateOrUpdateWrite(c) ==
    /\ requests[c].pc = "write"
    /\ LET q == requests[c]
           grade == InlineGrade(q.total)
       IN IF q.err = ErrRecordNotFound
          THEN LET result == SubjectResult(NewID(subject_results), q.student_id,
                                           q.subject_id, q.class_id, q.term,
                                           q.year, q.school_id, grade, q.total)
               IN IF UniqueIndexViolated(subject_results, result)
                  THEN /\ subject_results' = subject_results
                       /\ requests' = [requests EXCEPT ![c] =
                              Respond("CreateOrUpdate", 500, "duplicate key")]
                  ELSE /\ subject_results' = subject_results \cup {result}
                       /\ requests' = [requests EXCEPT ![c] =
                              Respond("CreateOrUpdate", 200, result)]
          ELSE LET result == [q.result EXCEPT !.final_grade = grade,
                                              !.raw_marks = [total |-> q.total]]
               IN /\ subject_results' \in Save(subject_results, result)
                  /\ requests' = [requests EXCEPT ![c] =
                         Respond("CreateOrUpdate", 200, result)]
    /\ UNCHANGED <<op, args, pc, res, mapped, fusion, calls, heap, db, sessions>>

\* the users behind the school-admin routes and behind the routes of every
\* authenticated user: role and school of the token
SchoolAdmins ==
    {[user_role |-> "school_admin", school_id |-> "sch1"],
     [user_role |-> "school_admin", school_id |-> "sch2"],
     [user_role |-> "system_admin", school_id |-> ""]}
Teachers ==
    {[user_role |-> "teacher", school_id |-> "sch1"],
     [user_role |-> "teacher", school_id |-> "sch2"]}

\* a response, with the tenant_school_id and the :id of the request context
RespondTo(handler, tenant_school_id, id, status, body) ==
    [pc |-> "done", handler |-> handler, status |-> status, body |-> body,
     tenant_school_id |-> tenant_school_id, id |-> id]

\* Delete (DELETE /results/:id, school admins): the id of a row of the
\* table or of none
Delete(c) ==
    /\ requests[c] = Idle
    /\ \E user \in SchoolAdmins : \E id \in {r.id : r \in subject_results} \cup {0} :
        /\ subject_results' =
              {IF r.id = id THEN [r EXCEPT !.deleted = TRUE] ELSE r :
                  r \in subject_results}
        /\ requests' = [requests EXCEPT ![c] =
              RespondTo("Delete", TenantSchoolID(user.user_role, user.school_id),
                        id, 200, "Result deleted")]
    /\ UNCHANGED <<op, args, pc, res, mapped, fusion, calls, heap, db, sessions>>

\* ClassHandler.Get (GET /classes/:id, every authenticated user)
ClassGet(c) ==
    /\ requests[c] = Idle
    /\ \E user \in Teachers : \E id \in {cl.id : cl \in classes} \cup {"clsNone"} :
        LET tenant == TenantSchoolID(user.user_role, user.school_id)
            found == {cl \in classes : cl.id = id}
        IN requests' = [requests EXCEPT ![c] =
              IF found = {}
              THEN RespondTo("ClassHandler.Get", tenant, id, 404, "Class not found")
              ELSE RespondTo("ClassHandler.Get", tenant, id, 200,
                             CHOOSE cl \in found : TRUE)]
    /\ UNCHANGED <<op, args, pc, res, mapped, fusion, calls, heap, subject_results, db, sessions>>

\* the response reached the client, which may send its next request
Return(c) ==
    /\ requests[c].pc = "done"
    /\ requests' = [requests EXCEPT ![c] = Idle]
    /\ UNCHANGED <<op, args, pc, res, mapped, fusion, calls, heap, subject_results, db, sessions>>

\* no grader call is running
NoCall ==
    /\ op = "none"
    /\ args = << >>
    /\ pc = "idle"
    /\ res = NoResult
    /\ mapped = << >>

\* the handler does no float64 arithmetic: any evaluation mode will do
InitResults ==
    /\ NoCall
    /\ fusion = "none"
    /\ calls = << >>
    /\ heap = << >>
    /\ requests = [c \in Clients |-> Idle]
    /\ subject_results = {}
    /\ db = NoTables
    /\ sessions = << >>

NextResults ==
    \E c \in Clients :
        \/ CreateOrUpdateLookup(c)
        \/ CreateOrUpdateWrite(c)
        \/ Delete(c)
        \/ Return(c)

SpecResults == InitResults /\ [][NextResults]_vars

\* the routes behind TenantMiddleware that take the id of a row
NextTenant ==
    \E c \in Clients :
        \/ CreateOrUpdateLookup(c)
        \/ CreateOrUpdateWrite(c)
        \/ Delete(c)
        \/ ClassGet(c)
        \/ Return(c)

SpecTenant == InitResults /\ [][NextTenant]_vars

(***************************************************************************)
(* Grader calls on concurrent goroutines.  Each goroutine makes one call;  *)
(* ComputeGradeFromPapers runs in three steps (the conversion loop, the    *)
(* copy and sort, the switch and return) and the slices it makes are on    *)
(* the heap.                                                               *)
(***************************************************************************)
Goroutines == 1..NumGoroutines

\* the calls a goroutine may make
ConcurrentCalls ==
    {[op |-> "MapMarkToCode", args |-> <<39>>],
     [op |-> "MapMarkToCode", args |-> <<75>>],
     [op |-> "PrimaryGrader.ComputeGrade", args |-> <<2, 57, 100, 100>>],
     [op |-> "PrimaryGrader.ComputeGrade", args |-> <<32, 48, 40, 60>>],
     [op |-> "NCDCGrader.ComputeGrade", args |-> <<24, 94, 100, 100>>],
     [op |-> "ComputeGradeFromPapers", args |-> <<35, 80, 55>>],
     [op |-> "ComputeGradeFromPapers", args |-> <<80, 35>>],
     [op |-> "ComputeGradeFromPapers", args |-> <<70, 65, 60, 55>>],
     [op |-> "ComputeGradeFromPapers", args |-> <<35>>],
     [op |-> "GetGrader", args |-> <<"S5">>],
     [op |-> "GetGrader", args |-> <<"P1">>]}

\* one backing array for the slices of every call
Alloc_Shared(g, name) == <<1, name>>

\* make([]int, n) in the call of goroutine g: the address of a new slice
Alloc(g, name) == <<g, name>>

\* a call that runs in one step
RunCall(g) ==
    /\ calls[g].pc = "call"
    /\ calls[g].op # "ComputeGradeFromPapers"
    /\ LET o == calls[g].op
           a == calls[g].args
           r == CASE o = "MapMarkToCode" -> MapMarkToCode(a[1])
                  [] o = "PrimaryGrader.ComputeGrade" ->
                        PrimaryComputeGrade(a[1], a[2], a[3], a[4])
                  [] o = "NCDCGrader.ComputeGrade" ->
                        NCDCComputeGrade(a[1], a[2], a[3], a[4])
                  [] o = "GetGrader" -> GetGrader(a[1])
       IN calls' = [calls EXCEPT ![g].pc = "done", ![g].res = r]
    /\ UNCHANGED <<op, args, pc, res, mapped, fusion, heap, requests, subject_results, db, sessions>>

\* ComputeGradeFromPapers, lines 322-337: the range check and the
\* conversion loop
ConvertPapers(g) ==
    /\ calls[g].pc = "call"
    /\ calls[g].op = "ComputeGradeFromPapers"
    /\ LET paperMarks == calls[g].args
           numPapers == Len(paperMarks)
       IN IF InvalidPaperCount(numPapers)
          THEN /\ calls' = [calls EXCEPT ![g].pc = "done",
                                         ![g].res = ComputeGradeFromPapers(paperMarks)]
               /\ heap' = heap
          ELSE LET codes == [i \in 1..numPapers |-> MapMarkToCode(paperMarks[i])]
                   paperCodes ==
                       [l \in {PaperLabel(i) : i \in 1..numPapers} |->
                           codes[CHOOSE i \in 1..numPapers : PaperLabel(i) = l]]
               IN /\ heap' = (Alloc(g, "codes") :> codes) @@ heap
                  /\ calls' = [calls EXCEPT ![g].pc = "sort",
                                            ![g].paperCodes = paperCodes]
    /\ UNCHANGED <<op, args, pc, res, mapped, fusion, requests, subject_results, db, sessions>>

\* lines 339-342: the copy and the sort
SortPapers(g) ==
    /\ calls[g].pc = "sort"
    /\ LET slices == CopyAndSort(heap[Alloc(g, "codes")])
       IN heap' = (Alloc(g, "codes") :> slices.codes)
                  @@ (Alloc(g, "sortedCodes") :> slices.sortedCodes) @@ heap
    /\ calls' = [calls EXCEPT ![g].pc = "compute"]
    /\ UNCHANGED <<op, args, pc, res, mapped, fusion, requests, subject_results, db, sessions>>

\* lines 344-361: the switch and the GradeResult
ComputePapers(g) ==
    /\ calls[g].pc = "compute"
    /\ LET paperMarks == calls[g].args
           numPapers == Len(paperMarks)
           sortedCodes == heap[Alloc(g, "sortedCodes")]
           out == CASE numPapers = 2 -> compute2Papers(sortedCodes)
                    [] numPapers = 3 -> compute3Papers(sortedCodes)
                    [] numPapers = 4 -> compute4Papers(sortedCodes)
                    [] OTHER -> <<"", "">>
       IN calls' = [calls EXCEPT
              ![g].pc = "done",
              ![g].res = GradeResult(out[1],
                             [papers |-> paperMarks,
                              codes |-> heap[Alloc(g, "codes")],
                              reason |-> out[2]],
                             hashRuleVersion(RuleVersionUACE),
                             calls[g].paperCodes)]
    /\ UNCHANGED <<op, args, pc, res, mapped, fusion, heap, requests, subject_results, db, sessions>>

InitConcurrent ==
    /\ NoCall
    /\ fusion \in Fusions
    /\ calls \in [Goroutines ->
                    {[op |-> c.op, args |-> c.args, pc |-> "call",
                      res |-> NoResult, paperCodes |-> NilMap] :
                        c \in ConcurrentCalls}]
    /\ heap = << >>
    /\ requests = << >>
    /\ subject_results = {}
    /\ db = NoTables
    /\ sessions = << >>

NextConcurrent ==
    \E g \in Goroutines :
        \/ RunCall(g)
        \/ ConvertPapers(g)
        \/ SortPapers(g)
        \/ ComputePapers(g)

SpecConcurrent == InitConcurrent /\ [][NextConcurrent]_vars

(***************************************************************************)
(* Users (UserHandler and UserAssignmentService) and authentication        *)
(* (AuthService).  Table users has a unique index on email; a user row     *)
(* keeps the fields the operations read or write.  The operations on       *)
(* users are single statements on the database, taken one at a time: op,   *)
(* args and res hold the last one and what it answered.                    *)
(***************************************************************************)
NoSchool == ""        \* User.SchoolID is nil
NoMeta == << >>       \* User.Meta is nil

\* the schools of table schools: id, name (its characters), type and the
\* levels of its config
schools ==
    { [id |-> "sch1", name |-> <<"S", "t", ".", " ", "M", "4">>,
       type |-> "Primary", levels |-> << >>],
      [id |-> "sch2", name |-> <<"K", "i", "t", "e">>,
       type |-> "Secondary", levels |-> <<"S1", "P1">>] }

UpperLetters ==
    <<"A", "B", "C", "D", "E", "F", "G", "H", "I", "J", "K", "L", "M",
      "N", "O", "P", "Q", "R", "S", "T", "U", "V", "W", "X", "Y", "Z">>

LowerLetters ==
    <<"a", "b", "c", "d", "e", "f", "g", "h", "i", "j", "k", "l", "m",
      "n", "o", "p", "q", "r", "s", "t", "u", "v", "w", "x", "y", "z">>

Digits == <<"0", "1", "2", "3", "4", "5", "6", "7", "8", "9">>

IndexIn(letters, char) == CHOOSE i \in 1..Len(letters) : letters[i] = char

IsIn(letters, char) == \E i \in 1..Len(letters) : letters[i] = char

\* generateSlug: a space becomes a hyphen, an upper-case letter its lower
\* case (char + 32), lower-case letters and digits stay, the rest is dropped
RECURSIVE generateSlug(_)
generateSlug(name) ==
    IF name = << >> THEN ""
    ELSE LET char == Head(name)
             kept == IF char = " " THEN "-"
                     ELSE IF IsIn(UpperLetters, char)
                          THEN LowerLetters[IndexIn(UpperLetters, char)]
                     ELSE IF IsIn(LowerLetters, char) \/ IsIn(Digits, char)
                          THEN char
                     ELSE ""
         IN  kept \o generateSlug(Tail(name))

\* argon2id.CreateHash: an encoded argon2id hash of the password
HashPassword(password) == [alg |-> "argon2id", password |-> password]

\* bcrypt.GenerateFromPassword: an encoded bcrypt hash of the password
GenerateFromPassword(password) == [alg |-> "bcrypt", password |-> password]

\* argon2id.ComparePasswordAndHash: a hash that is not an encoded argon2id
\* hash cannot be decoded (ErrInvalidHash); otherwise the password is hashed
\* with the salt and parameters of the hash and compared with it
VerifyPassword(hash, password) ==
    IF hash.alg # "argon2id"
    THEN [match |-> FALSE, err |-> "argon2id: hash is not in the correct format"]
    ELSE [match |-> hash.password = password, err |-> NoError]

User(id, school_id, email, password_hash, role, is_active, meta) ==
    [id |-> id, school_id |-> school_id, email |-> email,
     password_hash |-> password_hash, role |-> role, is_active |-> is_active,
     meta |-> meta]

\* BeforeCreate: uuid.New(), an id no row has
NewUserID == Cardinality(db.users) + 1

\* the unique index on users.email
EmailTaken(email, id) == \E u \in db.users : u.email = email /\ u.id # id

\* db.Create(user): refused by the unique index, or the row is inserted
CreateRow(user) ==
    IF EmailTaken(user.email, user.id)
    THEN [err |-> "duplicate key value violates unique constraint", users |-> db.users]
    ELSE [err |-> NoError, users |-> db.users \cup {user}]

\* the last operation on users and what it answered
Called(method, arguments, result) ==
    /\ op' = method
    /\ args' = arguments
    /\ res' = result
    /\ pc' = "done"
    /\ UNCHANGED <<mapped, fusion, calls, heap, requests, subject_results>>

UserEmails == {"head@sch.ug"}

UserPasswords == {"Secret#99"}

Roles == {"system_admin", "school_admin", "teacher"}

\* the bodies of POST /users: every role with and without a school, and
\* bodies the binding or uuid.Parse refuses
PassingUserRequests ==
    [email : UserEmails, password : UserPasswords, role : Roles,
     school_id : {"", "sch1"}]

FailingUserRequests ==
    { [email |-> "", password |-> "Secret#99", role |-> "teacher", school_id |-> "sch1"],
      [email |-> "head@sch.ug", password |-> "short", role |-> "teacher", school_id |-> "sch1"],
      [email |-> "head@sch.ug", password |-> "Secret#99", role |-> "", school_id |-> "sch1"],
      [email |-> "head@sch.ug", password |-> "Secret#99", role |-> "teacher",
       school_id |-> "not-a-uuid"] }

UserRequests == PassingUserRequests \cup FailingUserRequests

\* AuthService.CreateUser: the password is hashed with argon2id and the
\* row is created
CreateUser(user, password) ==
    CreateRow([user EXCEPT !.password_hash = HashPassword(password)])

\* UserHandler.Create (POST /users)
UserCreate ==
    \E req \in UserRequests :
        LET user == User(NewUserID,
                         IF req.role = "system_admin" THEN NoSchool ELSE req.school_id,
                         req.email, "", req.role, TRUE, NoMeta)
            created == CreateUser(user, req.password)
            answer ==
                IF req.email = "" \/ Len(req.password) < 8 \/ req.role = ""
                THEN [status |-> 400, body |-> "binding"]
                ELSE IF req.role # "system_admin" /\ req.school_id = ""
                THEN [status |-> 400,
                      body |-> "School assignment required for non-system admin users"]
                ELSE IF req.role # "system_admin" /\ ~IsUUID(req.school_id)
                THEN [status |-> 400, body |-> "Invalid school_id"]
                ELSE IF created.err # NoError
                THEN [status |-> 500, body |-> created.err]
                ELSE [status |-> 201,
                      body |-> [user EXCEPT !.password_hash = HashPassword(req.password)]]
        IN  /\ answer.status = 201 => Cardinality(db.users) < MaxUsers
            /\ db' = [db EXCEPT !.users =
                        IF answer.status = 201 THEN created.users ELSE @]
            /\ Called("UserHandler.Create", req, answer)
            /\ UNCHANGED sessions

\* the bodies of PUT /users/:id: a field that is empty (or nil) is left
\* alone; each body sets at most one field
UserUpdates ==
    [email : {"", "head@sch.ug"}, role : {""}, is_active : {"nil"}]
    \cup [email : {""}, role : Roles, is_active : {"nil"}]
    \cup [email : {""}, role : {""}, is_active : {"true", "false"}]

\* UserHandler.Update (PUT /users/:id): db.Save writes the row back, and
\* is refused when another row has the new email
UserUpdate ==
    \E id \in 1..MaxUsers, req \in UserUpdates :
        LET found == {u \in db.users : u.id = id}
            old == CHOOSE u \in found : TRUE
            user == [old EXCEPT
                       !.email = IF req.email # "" THEN req.email ELSE @,
                       !.role = IF req.role # "" THEN req.role ELSE @,
                       !.is_active = IF req.is_active # "nil" THEN req.is_active = "true" ELSE @]
            answer ==
                IF found = {} THEN [status |-> 404, body |-> "User not found"]
                ELSE IF EmailTaken(user.email, id)
                THEN [status |-> 500,
                      body |-> "duplicate key value violates unique constraint"]
                ELSE [status |-> 200, body |-> user]
        IN  /\ db' = [db EXCEPT !.users =
                        IF answer.status = 200 THEN (@ \ found) \cup {user} ELSE @]
            /\ Called("UserHandler.Update", [id |-> id, req |-> req], answer)
            /\ UNCHANGED sessions

\* UserAssignmentService.UpdateUserRole: the new role is school_admin or
\* teacher, and is written to the row with that id, whatever its role was
UpdateUserRole ==
    \E userID \in 1..MaxUsers, newRole \in Roles :
        LET isValid == newRole \in {"school_admin", "teacher"}
        IN  /\ db' = [db EXCEPT !.users =
                        IF isValid
                        THEN {IF u.id = userID THEN [u EXCEPT !.role = newRole] ELSE u :
                                u \in @}
                        ELSE @]
            /\ Called("UpdateUserRole", [userID |-> userID, newRole |-> newRole],
                      [err |-> IF isValid THEN NoError ELSE "invalid role"])
            /\ UNCHANGED sessions

\* the row CreateSchoolAdmin makes for a school
SchoolAdmin(schoolID, schoolName) ==
    User(NewUserID, schoolID, "admin@" \o generateSlug(schoolName) \o ".ug",
         GenerateFromPassword("Admin@123"), "school_admin", TRUE,
         [default_password |-> "Admin@123", must_change_password |-> TRUE])

\* UserAssignmentService.CreateSchoolAdmin
CreateSchoolAdmin ==
    \E school \in schools :
        LET admin == SchoolAdmin(school.id, school.name)
            created == CreateRow(admin)
        IN  /\ created.err = NoError => Cardinality(db.users) < MaxUsers
            /\ db' = [db EXCEPT !.users = created.users]
            /\ Called("CreateSchoolAdmin", [schoolID |-> school.id, schoolName |-> school.name],
                      [err |-> created.err,
                       user |-> IF created.err = NoError THEN admin ELSE "nil"])
            /\ UNCHANGED sessions

\* UserAssignmentService.CreateTeacher
CreateTeacher ==
    \E school \in schools, email \in UserEmails :
        LET teacher == User(NewUserID, school.id, email,
                            GenerateFromPassword("Teacher@123"), "teacher", TRUE,
                            [default_password |-> "Teacher@123",
                             must_change_password |-> TRUE])
            created == CreateRow(teacher)
        IN  /\ created.err = NoError => Cardinality(db.users) < MaxUsers
            /\ db' = [db EXCEPT !.users = created.users]
            /\ Called("CreateTeacher", [schoolID |-> school.id, email |-> email],
                      [err |-> created.err,
                       user |-> IF created.err = NoError THEN teacher ELSE "nil"])
            /\ UNCHANGED sessions

InitUsers ==
    /\ NoCall
    /\ fusion = "none"
    /\ calls = << >>
    /\ heap = << >>
    /\ requests = << >>
    /\ subject_results = {}
    /\ db = NoTables
    /\ sessions = << >>

NextUsers ==
    \/ UserCreate
    \/ UserUpdate
    \/ UpdateUserRole
    \/ CreateSchoolAdmin
    \/ CreateTeacher

SpecUsers == InitUsers /\ [][NextUsers]_vars

(***************************************************************************)
(* AuthService: Login, and RefreshTokens and RevokeToken called on         *)
(* concurrent sessions.  RevokeToken is one statement on table             *)
(* refresh_tokens; RefreshTokens reads the token row and the user, and     *)
(* revokes the row and stores the new token in a later step.  The clock    *)
(* counts seconds, the precision of the dates in a signed token.           *)
(***************************************************************************)
Sessions == 1..NumSessions

ErrInvalidCredentials == "invalid credentials"
ErrUserNotActive == "user not active"
ErrInvalidToken == "invalid token"
ErrTokenRevoked == "token revoked"
ErrTokenExpired == "token is expired"
ErrDuplicateKey == "duplicate key value violates unique constraint"

\* LOWER(email) of the query of Login
Lower(email) ==
    CASE email = "Head@sch.ug" -> "head@sch.ug"
      [] email = "HEAD@SCH.UG" -> "head@sch.ug"
      [] OTHER -> email

\* time.Now() moves on by a second
Tick ==
    /\ db.now < MaxTime
    /\ db' = [db EXCEPT !.now = @ + 1]
    /\ UNCHANGED <<op, args, pc, res, mapped, fusion, calls, heap, requests, subject_results, sessions>>

\* the signed refresh token: a string fixed by its claims (UserID, Subject,
\* IssuedAt and ExpiresAt in whole seconds) and the secret
SignedString(user_id, iat) ==
    [sub |-> user_id, iat |-> iat, exp |-> iat + RefreshExpiry, secret |-> "JWT_SECRET"]

\* AuthService.GenerateTokenPair: the refresh token is stored in table
\* refresh_tokens, which has a unique index on token
GenerateTokenPair(user) ==
    LET refreshTokenString == SignedString(user.id, db.now)
        rt == [user_id |-> user.id, token |-> refreshTokenString,
               expires_at |-> db.now + RefreshExpiry, revoked |-> FALSE]
    IN  IF \E r \in db.refresh_tokens : r.token = refreshTokenString
        THEN [err |-> ErrDuplicateKey, tokens |-> "nil",
              refresh_tokens |-> db.refresh_tokens]
        ELSE [err |-> NoError,
              tokens |-> [access_token |-> [user_id |-> user.id, role |-> user.role,
                                            school_id |-> user.school_id,
                                            iat |-> db.now],
                          refresh_token |-> refreshTokenString],
              refresh_tokens |-> db.refresh_tokens \cup {rt}]

\* the credentials presented to Login: those of the users that are created,
\* with an email in other case and a wrong password
LoginRequests ==
    { [email |-> "head@sch.ug", password |-> "Secret#99"],
      [email |-> "Head@sch.ug", password |-> "Secret#99"],
      [email |-> "head@sch.ug", password |-> "Teacher@123"],
      [email |-> "head@sch.ug", password |-> "Admin@123"],
      [email |-> "admin@st-m4.ug", password |-> "Admin@123"],
      [email |-> "admin@kite.ug", password |-> "Admin@123"] }

\* what a session keeps of a call that returned: the token it presented,
\* whether the row of that token was revoked when the call read it, and
\* the error returned
Returns(method, refreshToken, was_revoked, err) ==
    [pc |-> "done", op |-> method, args |-> refreshToken,
     was_revoked |-> was_revoked, err |-> err]

\* AuthService.Login
Login ==
    \E req \in LoginRequests :
        LET found == {u \in db.users : Lower(u.email) = Lower(req.email)}
            user == CHOOSE u \in found : \A v \in found : u.id <= v.id
            verified == VerifyPassword(user.password_hash, req.password)
            generated == GenerateTokenPair(user)
            err == IF found = {} THEN ErrInvalidCredentials
                   ELSE IF ~user.is_active THEN ErrUserNotActive
                   ELSE IF verified.err # NoError \/ ~verified.match
                        THEN ErrInvalidCredentials
                   ELSE generated.err
        IN  /\ db' = [db EXCEPT !.refresh_tokens =
                        IF err = NoError THEN generated.refresh_tokens ELSE @]
            /\ Called("Login", req, [err |-> err])
            /\ UNCHANGED sessions

\* a token signed with another secret
ForgedToken == [sub |-> 1, iat |-> 0, exp |-> MaxTime, secret |-> "other"]

\* the refresh tokens a client can present: those that were issued, and the
\* forged one
PresentedTokens == {r.token : r \in db.refresh_tokens} \cup {ForgedToken}

\* AuthService.VerifyToken: the signature and the expiry of the token
VerifyToken(tokenString) ==
    IF tokenString.secret # "JWT_SECRET"
    THEN [err |-> "signature is invalid", claims |-> [UserID |-> 0]]
    ELSE IF db.now > tokenString.exp
    THEN [err |-> ErrTokenExpired, claims |-> [UserID |-> 0]]
    ELSE [err |-> NoError, claims |-> [UserID |-> tokenString.sub]]

\* AuthService.RefreshTokens up to the check of the user: the token is
\* verified, its row and the user are read
RefreshTokensCheck(s) ==
    \E refreshToken \in PresentedTokens :
        LET verified == VerifyToken(refreshToken)
            rows == {r \in db.refresh_tokens : r.token = refreshToken}
            rt == CHOOSE r \in rows : TRUE
            found == {u \in db.users : u.id = verified.claims.UserID}
            user == CHOOSE u \in found : TRUE
            err == IF verified.err # NoError THEN verified.err
                   ELSE IF rows = {} THEN ErrInvalidToken
                   ELSE IF rt.revoked \/ db.now > rt.expires_at THEN ErrTokenRevoked
                   ELSE IF found = {} THEN ErrRecordNotFound
                   ELSE IF ~user.is_active THEN ErrUserNotActive
                   ELSE NoError
            was_revoked == \E r \in rows : r.revoked
        IN  /\ sessions[s] = Idle
            /\ sessions' = [sessions EXCEPT ![s] =
                  IF err # NoError
                  THEN Returns("RefreshTokens", refreshToken, was_revoked, err)
                  ELSE [pc |-> "revoke", op |-> "RefreshTokens", args |-> refreshToken,
                        user |-> user, was_revoked |-> was_revoked]]
            /\ UNCHANGED <<op, args, pc, res, mapped, fusion, calls, heap, requests, subject_results, db>>

\* the rest of AuthService.RefreshTokens: the row of the old token is
\* revoked and a new pair is generated for the user that was read
RefreshTokensRevoke(s) ==
    /\ sessions[s].pc = "revoke"
    /\ LET revoked == {IF r.token = sessions[s].args THEN [r EXCEPT !.revoked = TRUE] ELSE r :
                          r \in db.refresh_tokens}
           generated == GenerateTokenPair(sessions[s].user)
       IN  /\ db' = [db EXCEPT !.refresh_tokens =
                       IF generated.err = NoError
                       THEN revoked \cup (generated.refresh_tokens \ db.refresh_tokens)
                       ELSE revoked]
           /\ sessions' = [sessions EXCEPT ![s] =
                 Returns("RefreshTokens", sessions[s].args, sessions[s].was_revoked,
                         generated.err)]
    /\ UNCHANGED <<op, args, pc, res, mapped, fusion, calls, heap, requests, subject_results>>

\* AuthService.RevokeToken
RevokeToken(s) ==
    \E refreshToken \in PresentedTokens :
        /\ sessions[s] = Idle
        /\ db' = [db EXCEPT !.refresh_tokens =
                    {IF r.token = refreshToken THEN [r EXCEPT !.revoked = TRUE] ELSE r :
                        r \in @}]
        /\ sessions' = [sessions EXCEPT ![s] =
              Returns("RevokeToken", refreshToken,
                      \E r \in db.refresh_tokens : r.token = refreshToken /\ r.revoked,
                      NoError)]
        /\ UNCHANGED <<op, args, pc, res, mapped, fusion, calls, heap, requests, subject_results>>

\* the caller takes the answer and may call again
SessionReturn(s) ==
    /\ sessions[s].pc = "done"
    /\ sessions' = [sessions EXCEPT ![s] = Idle]
    /\ UNCHANGED <<op, args, pc, res, mapped, fusion, calls, heap, requests, subject_results, db>>

InitAuth ==
    /\ NoCall
    /\ fusion = "none"
    /\ calls = << >>
    /\ heap = << >>
    /\ requests = << >>
    /\ subject_results = {}
    /\ db = NoTables
    /\ sessions = [s \in Sessions |-> Idle]

\* users are created and deactivated, and log in
NextLogin ==
    \/ UserCreate
    \/ UserUpdate
    \/ CreateSchoolAdmin
    \/ CreateTeacher
    \/ Login

SpecLogin == InitUsers /\ [][NextLogin]_vars

\* users log in, refresh their tokens and log out
NextRefresh ==
    \/ UserCreate
    \/ Tick
    \/ Login
    \/ \E s \in Sessions :
          \/ RefreshTokensCheck(s)
          \/ RefreshTokensRevoke(s)
          \/ RevokeToken(s)
          \/ SessionReturn(s)

SpecRefresh == InitAuth /\ [][NextRefresh]_vars

(***************************************************************************)
(* SchoolSetupService: SetupSchool and SetupNewLevels, called on           *)
(* concurrent sessions.  Each call is a transaction: the rows it creates   *)
(* are visible to its own queries at once and to the other sessions when   *)
(* it commits.  A table is a bag of rows, a row being the columns the      *)
(* queries of the service name; no table of the three has a unique index.  *)
(* CreateSchoolAdmin runs on the connection of the service, outside of     *)
(* the transaction.                                                        *)
(***************************************************************************)
currentYear == 2025

terms == <<"Term1", "Term2", "Term3">>

\* the levels handed to a call
SetupLevels == {<<"P1">>, <<"S5", "P1", "S5">>}

Range(seq) == {seq[i] : i \in 1..Len(seq)}

isPrimaryLevel(level) == level \in {"P1", "P2", "P3", "P4", "P5", "P6", "P7"}

isSecondaryLevel(level) == level \in {"S1", "S2", "S3", "S4", "S5", "S6"}

\* the rule version createGradingRules gives a level
ruleVersion(level) ==
    IF isPrimaryLevel(level) THEN "NCDC_PRIMARY_2023"
    ELSE IF isSecondaryLevel(level)
         THEN IF level \in {"S5", "S6"} THEN "UNEB_ADVANCED_2023"
              ELSE "UNEB_ORDINARY_2023"
    ELSE "NCDC_ECCE_2023"

\* StandardSubjectService.GetSubjectsForLevel
GetSubjectsForLevel(level) == {std \in standard_subjects : std.level = level}

\* the rows a call wants to exist, by table
ClassRows(schoolID, levels) ==
    {[school_id |-> schoolID, level |-> level, year |-> currentYear, term |-> terms[t]] :
        level \in Range(levels), t \in 1..Len(terms)}

SubjectRows(schoolID, levels) ==
    UNION {{[school_id |-> schoolID, name |-> std.name, level |-> std.level] :
              std \in GetSubjectsForLevel(level)} : level \in Range(levels)}

GradingRuleRows(schoolID, levels) ==
    {[school_id |-> schoolID, level |-> level, rule_version |-> ruleVersion(level)] :
        level \in Range(levels)}

\* the loop of createClasses, createGradingRules and
\* CreateSchoolSubjectsFromStandard: a row is created when the query finds
\* none like it among the committed rows and the rows of the transaction
Missing(rows, committed, created) ==
    SetToBag({r \in rows : ~BagIn(r, committed (+) created)})

NoRows == [classes |-> EmptyBag, subjects |-> EmptyBag, grading_rules |-> EmptyBag]

\* the school has what SetupSchool creates for these levels
IsSetUp(school, levels) ==
    /\ \A r \in ClassRows(school.id, levels) : BagIn(r, db.classes)
    /\ \A r \in SubjectRows(school.id, levels) : BagIn(r, db.subjects)
    /\ \A r \in GradingRuleRows(school.id, levels) : BagIn(r, db.grading_rules)
    /\ \E u \in db.users : u.email = SchoolAdmin(school.id, school.name).email

\* no key has MaxCopies rows: a further call may begin
MayBegin ==
    /\ \A r \in BagToSet(db.classes) : CopiesIn(r, db.classes) < MaxCopies
    /\ \A r \in BagToSet(db.grading_rules) : CopiesIn(r, db.grading_rules) < MaxCopies

Unchanged == <<op, args, pc, res, mapped, fusion, calls, heap, requests, subject_results>>

\* SetupSchool or SetupNewLevels begins its transaction and runs
\* createClasses
createClasses(s) ==
    \E method \in {"SetupSchool", "SetupNewLevels"}, school \in schools, levels \in SetupLevels :
        /\ sessions[s] = Idle
        /\ MayBegin
        /\ sessions' = [sessions EXCEPT ![s] =
              [pc |-> "createSubjects", op |-> method, school |-> school,
               levels |-> levels, was_set_up |-> IsSetUp(school, levels),
               tx |-> [NoRows EXCEPT !.classes =
                         Missing(ClassRows(school.id, levels), db.classes, EmptyBag)]]]
        /\ UNCHANGED <<db, Unchanged>>

\* createSubjects (CreateSchoolSubjectsFromStandard on the transaction)
createSubjects(s) ==
    /\ sessions[s].pc = "createSubjects"
    /\ sessions' = [sessions EXCEPT ![s].pc = "createGradingRules",
                                    ![s].tx.subjects =
          Missing(SubjectRows(sessions[s].school.id, sessions[s].levels), db.subjects, @)]
    /\ UNCHANGED <<db, Unchanged>>

createGradingRules(s) ==
    /\ sessions[s].pc = "createGradingRules"
    /\ sessions' = [sessions EXCEPT
          ![s].pc = IF sessions[s].op = "SetupSchool" THEN "CreateSchoolAdmin" ELSE "commit",
          ![s].tx.grading_rules =
              Missing(GradingRuleRows(sessions[s].school.id, sessions[s].levels),
                      db.grading_rules, @)]
    /\ UNCHANGED <<db, Unchanged>>

\* what a session keeps of a call that returned
SetupReturns(call, err, created) ==
    [pc |-> "done", op |-> call.op, school |-> call.school, levels |-> call.levels,
     was_set_up |-> call.was_set_up, err |-> err, created |-> created]

\* step 4 of SetupSchool: the admin is created at once, outside of the
\* transaction; when that fails the transaction is rolled back
SetupCreateSchoolAdmin(s) ==
    /\ sessions[s].pc = "CreateSchoolAdmin"
    /\ LET admin == SchoolAdmin(sessions[s].school.id, sessions[s].school.name)
           created == CreateRow(admin)
       IN  /\ created.err = NoError => Cardinality(db.users) < MaxUsers
           /\ db' = [db EXCEPT !.users = created.users]
           /\ sessions' = [sessions EXCEPT ![s] =
                 IF created.err = NoError THEN [@ EXCEPT !.pc = "commit"]
                 ELSE SetupReturns(@, "failed to create school admin", NoRows)]
    /\ UNCHANGED Unchanged

\* the transaction commits: its rows join the tables
Commit(s) ==
    /\ sessions[s].pc = "commit"
    /\ db' = [db EXCEPT !.classes = @ (+) sessions[s].tx.classes,
                        !.subjects = @ (+) sessions[s].tx.subjects,
                        !.grading_rules = @ (+) sessions[s].tx.grading_rules]
    /\ sessions' = [sessions EXCEPT ![s] = SetupReturns(@, NoError, @.tx)]
    /\ UNCHANGED Unchanged

NextSetup ==
    \E s \in Sessions :
        \/ createClasses(s)
        \/ createSubjects(s)
        \/ createGradingRules(s)
        \/ SetupCreateSchoolAdmin(s)
        \/ Commit(s)
        \/ SessionReturn(s)

SpecSetup == InitAuth /\ [][NextSetup]_vars

\* every behaviour of the model
Init ==
    \/ InitGraders
    \/ InitMapMarkPair
    \/ InitPapersPermuted
    \/ InitPapersRaised
    \/ InitConcurrent
    \/ InitResults
    \/ InitUsers
    \/ InitAuth

Next ==
    \/ NextGraders
    \/ CallMapMarkToCodePair
    \/ CallComputeGradeFromPapersPermuted
    \/ CallComputeGradeFromPapersRaised
    \/ NextConcurrent
    \/ NextTenant
    \/ NextUsers
    \/ NextLogin
    \/ NextRefresh
    \/ NextSetup

Spec == Init /\ [][Next]_vars

\* one method at a time
SpecMapMark == InitMapMark /\ [][CallMapMarkToCode]_vars
SpecPrimary == InitPrimary /\ [][CallPrimaryComputeGrade]_vars
SpecNCDC == InitNCDC /\ [][CallNCDCComputeGrade]_vars
SpecPapers == InitPapers /\ [][CallComputeGradeFromPapers]_vars

(***************************************************************************)
(* Properties                                                              *)
(***************************************************************************)
Returned(method) == pc = "done" /\ op = method

\* The code table of the advanced-secondary scale, range by range
CodeOfMark(m) ==
    CASE m >= 75 -> 1
      [] m \in 70..74 -> 2
      [] m \in 65..69 -> 3
      [] m \in 60..64 -> 4
      [] m \in 55..59 -> 5
      [] m \in 50..54 -> 6
      [] m \in 45..49 -> 7
      [] m \in 40..44 -> 8
      [] m < 40 -> 9

\* C1: MapMarkToCode returns, for every mark, the code of the table with
\* inclusive lower bounds: >= 75 -> 1, 70..74 -> 2, ..., 40..44 -> 8,
\* below 40 -> 9.
C1_MapMarkToCodeTable ==
    Returned("MapMarkToCode") => res = CodeOfMark(args[1])

\* a boundary mark got the better code
C1_Witness ==
    Returned("MapMarkToCode") /\ args[1] \in {75, 70, 65, 60, 55, 50, 45, 40}
    /\ res = CodeOfMark(args[1] - 1) - 1

\* The band of the weighted total n/d (a rational), inclusive lower bounds
BandOfTotal(n, d) ==
    IF n >= 80 * d THEN "A"
    ELSE IF n >= 65 * d THEN "B"
    ELSE IF n >= 50 * d THEN "C"
    ELSE IF n >= 35 * d THEN "D"
    ELSE "E"

\* the band of (a/maxA)*wA + (b/maxB)*wB
WeightedBand(a, b, maxA, maxB, wA, wB) ==
    BandOfTotal(a * wA * maxB + b * wB * maxA, maxA * maxB)

\* C2: PrimaryGrader.ComputeGrade returns the band of
\* total = (ca/caMax)*40 + (exam/examMax)*60, a total exactly on 80, 65, 50
\* or 35 getting the higher band.
C2_PrimaryBand ==
    Returned("PrimaryGrader.ComputeGrade") =>
        res.FinalGrade = WeightedBand(args[1], args[2], args[3], args[4], 40, 60)

\* C3: NCDCGrader.ComputeGrade returns the band of
\* total = (sb/sbMax)*20 + (ext/extMax)*80, with the thresholds of the
\* lower-primary grader, inclusive.
C3_NCDCBand ==
    Returned("NCDCGrader.ComputeGrade") =>
        res.FinalGrade = WeightedBand(args[1], args[2], args[3], args[4], 20, 80)

\* The grade of a sum of two codes, inclusive upper bounds
GradeOfSum(sum) ==
    CASE sum <= 6 -> "A"
      [] sum \in 7..10 -> "B"
      [] sum \in 11..12 -> "C"
      [] sum \in 13..15 -> "D"
      [] sum \in 16..18 -> "E"
      [] OTHER -> "O"

PapersGraded(n) == Returned("ComputeGradeFromPapers") /\ Len(args) = n

\* the codes of the papers of the call, in paper order
CodesOfArgs == [i \in 1..Len(args) |-> CodeOfMark(args[i])]

BestTwoSum ==
    LET papers == 1..Len(args)
        pairs == {p \in papers \X papers : p[1] # p[2]}
        sums == {CodesOfArgs[p[1]] + CodesOfArgs[p[2]] : p \in pairs}
    IN CHOOSE t \in sums : \A u \in sums : t <= u

C6_InvalidCount ==
    (Returned("ComputeGradeFromPapers") /\ Len(args) \notin {2, 3, 4}) =>
        /\ res.FinalGrade = "F"
        /\ res.ComputationReason =
              [rule |-> "Invalid number of papers", count |-> Len(args)]
        /\ res.RuleVersionHash = "39dd98f5015b5fe0"
        /\ DOMAIN res.PaperCodes = {}
        /\ mapped = << >>

\* five papers were refused
C6_Witness ==
    /\ PapersGraded(5)
    /\ res.FinalGrade = "F"
    /\ res.ComputationReason.count = 5

\* the codes of the call are, in some order, the codes of c
CodesAre(c) ==
    /\ Len(args) = Len(c)
    /\ \A k \in 1..9 :
          Cardinality({i \in 1..Len(args) : CodesOfArgs[i] = k})
              = Cardinality({i \in 1..Len(c) : c[i] = k})

\* C7: for 3 papers with codes 9, 9 and 7 the exception branch is taken: the
\* reason records the exception clause, and the grade is E.
C7_ExceptionFires ==
    (Returned("ComputeGradeFromPapers") /\ CodesAre(<<9, 9, 7>>)) =>
        /\ res.ComputationReason.reason.rule = "Science exception"
        /\ res.FinalGrade = "E"

\* C8: for 3 papers whose codes are all 9 the exception does not fire and
\* the grade is O.
C8_AllNinesGiveO ==
    (Returned("ComputeGradeFromPapers") /\ CodesAre(<<9, 9, 9>>)) =>
        /\ res.ComputationReason.reason.rule # "Science exception"
        /\ res.FinalGrade = "O"

\* the grade the tests of the package give to the marks of a call
TestGrade(marks, grade) ==
    (Returned("ComputeGradeFromPapers") /\ args = marks) => res.FinalGrade = grade

\* C9: 2 papers: A when both codes are 1, B for marks (70,65), C for (60,55),
\* D for (55,50), E for (50,45), O for (40,35).
C9_TwoPaperCases ==
    /\ (PapersGraded(2) /\ CodesAre(<<1, 1>>)) => res.FinalGrade = "A"
    /\ TestGrade(<<70, 65>>, "B")
    /\ TestGrade(<<60, 55>>, "C")
    /\ TestGrade(<<55, 50>>, "D")
    /\ TestGrade(<<50, 45>>, "E")
    /\ TestGrade(<<40, 35>>, "O")

\* C10: 3 and 4 papers whose marks descend in 5-mark steps: A when every
\* code is 1, B from (70,65,60), C from (60,55,50), D from (55,50,45), E
\* from (50,45,40), and O for (40,35,30,25).
C10_DescendingCases ==
    /\ ((PapersGraded(3) \/ PapersGraded(4)) /\ \A i \in 1..Len(args) : CodesOfArgs[i] = 1)
          => res.FinalGrade = "A"
    /\ TestGrade(<<70, 65, 60>>, "B") /\ TestGrade(<<70, 65, 60, 55>>, "B")
    /\ TestGrade(<<60, 55, 50>>, "C") /\ TestGrade(<<60, 55, 50, 45>>, "C")
    /\ TestGrade(<<55, 50, 45>>, "D") /\ TestGrade(<<55, 50, 45, 40>>, "D")
    /\ TestGrade(<<50, 45, 40>>, "E") /\ TestGrade(<<50, 45, 40, 35>>, "E")
    /\ TestGrade(<<40, 35, 30, 25>>, "O")

WeightedAlphabet == {"A", "B", "C", "D", "E"}
PaperAlphabet == {"A", "B", "C", "D", "E", "O", "F"}

\* C11: the FinalGrade of every GradeResult is a grade of the grader's
\* alphabet, never empty: A..E from PrimaryGrader and NCDCGrader, A..E, O
\* or F from ComputeGradeFromPapers, whatever the number of papers.
C11_GradeAlphabet ==
    /\ (Returned("PrimaryGrader.ComputeGrade") \/ Returned("NCDCGrader.ComputeGrade"))
          => res.FinalGrade \in WeightedAlphabet
    /\ Returned("ComputeGradeFromPapers") => res.FinalGrade \in PaperAlphabet

\* more papers than the grader accepts, and fewer, were both graded F
C11_Witness ==
    /\ Returned("ComputeGradeFromPapers")
    /\ Len(args) \in {0, 1, 5}
    /\ res.FinalGrade = "F"
    /\ res.FinalGrade \in PaperAlphabet \ WeightedAlphabet

Codes == 1..9

\* C12: MapMarkToCode is total and monotone: every mark of 0..100 gets a
\* code of 1..9, and of two marks m1 <= m2 the code of m2 is at most the
\* code of m1.
C12_TotalMonotone ==
    Returned("MapMarkToCode, MapMarkToCode") =>
        /\ res[1] \in Codes /\ res[2] \in Codes
        /\ (args[1] <= args[2] => res[2] <= res[1])
        /\ (args[1] = args[2] => res[2] = res[1])

\* a higher mark got a strictly better code, and the two ends of the mark
\* range got the two ends of the code range
C12_Witness ==
    /\ Returned("MapMarkToCode, MapMarkToCode")
    /\ args = <<0, MaxMark>>
    /\ res = <<9, 1>>

\* C13: GetGrader returns a PrimaryGrader for P4..P7, an NCDCGrader for
\* S1..S4, a UACEGrader for S5 and S6, and nil for every other identifier:
\* P1..P3, the nursery levels, the empty string and names in another case
\* get no grader.
C13_LevelPartition ==
    Returned("GetGrader") =>
        /\ res = "PrimaryGrader" <=> args[1] \in {"P4", "P5", "P6", "P7"}
        /\ res = "NCDCGrader" <=> args[1] \in {"S1", "S2", "S3", "S4"}
        /\ res = "UACEGrader" <=> args[1] \in {"S5", "S6"}
        /\ res = NilGrader <=>
              args[1] \notin {"P4", "P5", "P6", "P7", "S1", "S2", "S3", "S4", "S5", "S6"}
        /\ args[1] \in {"P1", "P2", "P3", "Baby", "Middle", "Top", "", "p4", "s1", "s5"}
              => res = NilGrader

\* a lower-primary level below P4 got no grader
C13_Witness ==
    /\ Returned("GetGrader")
    /\ args[1] \in {"P1", "P2", "P3"}
    /\ res = NilGrader

\* the level of the class a student is enrolled in
LevelOfStudent(student_id) ==
    LET e == CHOOSE e \in enrollments : e.student_id = student_id
    IN (CHOOSE cl \in classes : cl.id = e.class_id).level

\* the requests CreateOrUpdate answered with a stored result
Stored(c) ==
    /\ requests[c].pc = "done"
    /\ requests[c].handler = "CreateOrUpdate"
    /\ requests[c].status = 200

\* C14: CreateOrUpdate rejects a request for a student whose level has no
\* grader: it answers no such request with a result, and no result of such
\* a student is in the table.
C14_UnknownLevelRejected ==
    /\ \A c \in Clients :
          Stored(c) => GetGrader(LevelOfStudent(requests[c].body.student_id)) # NilGrader
    /\ \A r \in subject_results :
          GetGrader(LevelOfStudent(r.student_id)) # NilGrader

\* C15: every row of subject_results written by CreateOrUpdate has a
\* computation reason and a rule-version fingerprint, neither of them empty.
C15_StoredResultIsStamped ==
    \A r \in subject_results :
        /\ r.computation_reason # ""
        /\ r.rule_version_hash # ""

\* C20: whatever the interleaving of the CreateOrUpdate and Delete requests,
\* table subject_results holds at most one row for a (student, subject,
\* term, year): two rows with the same key are the same row.
C20_OneRowPerKey ==
    \A r1, r2 \in subject_results : SameKey(r1, r2) => r1 = r2

\* two requests for one key both found no row; the first created it, the
\* Create of the second was refused by the index, and the table holds the
\* one row
C20_Witness ==
    \E c1, c2 \in Clients :
        /\ Stored(c1)
        /\ requests[c2].pc = "done"
        /\ requests[c2].handler = "CreateOrUpdate"
        /\ requests[c2].status = 500
        /\ subject_results = {requests[c1].body}

\* the first 8 bytes of the SHA-256 digest of each rule version, in hex
FingerprintPrimary == "d33c40990ad4c1d5"
FingerprintNCDC == "b708cb3ca78c1581"
FingerprintUACE == "39dd98f5015b5fe0"

\* C16: every GradeResult carries the fingerprint of the rule version of
\* its own curriculum, the same on every call: PRIMARY_V1 from
\* PrimaryGrader, NCDC_V1 from NCDCGrader, UACE_V1 from UACEGrader (the F of
\* an invalid paper count included), and the three fingerprints differ.
C16_OwnRuleVersionHash ==
    /\ Returned("PrimaryGrader.ComputeGrade") => res.RuleVersionHash = FingerprintPrimary
    /\ Returned("NCDCGrader.ComputeGrade") => res.RuleVersionHash = FingerprintNCDC
    /\ Returned("ComputeGradeFromPapers") => res.RuleVersionHash = FingerprintUACE
    /\ Cardinality({FingerprintPrimary, FingerprintNCDC, FingerprintUACE}) = 3
    /\ FingerprintPrimary = hashRuleVersion("PRIMARY_V1")
    /\ FingerprintNCDC = hashRuleVersion("NCDC_V1")
    /\ FingerprintUACE = hashRuleVersion("UACE_V1")

\* a single paper was graded F and stamped with the UACE fingerprint
C16_Witness ==
    /\ PapersGraded(1)
    /\ res.FinalGrade = "F"
    /\ res.RuleVersionHash = FingerprintUACE

\* the labels of the papers, in paper order
Labels == <<"Paper1", "Paper2", "Paper3", "Paper4">>

\* C17: for 2, 3 or 4 papers PaperCodes has exactly the keys Paper1..PaperN,
\* the entry of paper i being the code of the i-th mark of the call, and the
\* reason reports the marks and their codes in paper order: the sort for
\* the best two works on a copy.
C17_PaperCodesInPaperOrder ==
    (Returned("ComputeGradeFromPapers") /\ Len(args) \in 2..4) =>
        /\ DOMAIN res.PaperCodes = {Labels[i] : i \in 1..Len(args)}
        /\ \A i \in 1..Len(args) : res.PaperCodes[Labels[i]] = CodeOfMark(args[i])
        /\ res.ComputationReason.papers = args
        /\ res.ComputationReason.codes = CodesOfArgs

\* three papers whose codes are not in ascending order, reported as given
C17_Witness ==
    /\ PapersGraded(3)
    /\ args = <<35, 80, 55>>
    /\ res.ComputationReason.codes = <<9, 1, 5>>
    /\ res.PaperCodes = [l \in {"Paper1", "Paper2", "Paper3"} |->
                           CASE l = "Paper1" -> 9 [] l = "Paper2" -> 1 [] OTHER -> 5]

\* C18: the grade of ComputeGradeFromPapers does not depend on the order of
\* the papers: 2, 3 or 4 marks and any rearrangement of them get the same
\* FinalGrade.
C18_OrderIndependent ==
    Returned("ComputeGradeFromPapers, ComputeGradeFromPapers") =>
        res[1].FinalGrade = res[2].FinalGrade

\* three papers graded A in two orders, their codes reported in each order
C18_Witness ==
    /\ Returned("ComputeGradeFromPapers, ComputeGradeFromPapers")
    /\ args = <<(<<35, 75, 55>>), (<<75, 55, 35>>)>>
    /\ res[1].FinalGrade = "A" /\ res[2].FinalGrade = "A"
    /\ res[1].ComputationReason.codes = <<9, 1, 5>>
    /\ res[2].ComputationReason.codes = <<1, 5, 9>>

\* the value a call returns when it runs alone
Alone(o, a) ==
    CASE o = "MapMarkToCode" -> MapMarkToCode(a[1])
      [] o = "PrimaryGrader.ComputeGrade" -> PrimaryComputeGrade(a[1], a[2], a[3], a[4])
      [] o = "NCDCGrader.ComputeGrade" -> NCDCComputeGrade(a[1], a[2], a[3], a[4])
      [] o = "ComputeGradeFromPapers" -> ComputeGradeFromPapers(a)
      [] o = "GetGrader" -> GetGrader(a[1])

\* C19: graders hold no state across calls: however the calls of
\* concurrent goroutines interleave, each call returns the value its inputs
\* give when it runs alone, and the slices of a call in progress hold what
\* that call wrote, whatever the other calls did.
C19_CallsAreIndependent ==
    \A g \in Goroutines :
        /\ calls[g].pc = "done" => calls[g].res = Alone(calls[g].op, calls[g].args)
        /\ calls[g].pc \in {"sort", "compute"} =>
              heap[Alloc(g, "codes")] =
                  [i \in 1..Len(calls[g].args) |-> MapMarkToCode(calls[g].args[i])]
        /\ calls[g].pc = "compute" =>
              heap[Alloc(g, "sortedCodes")] = SortInts(heap[Alloc(g, "codes")])

\* two calls of ComputeGradeFromPapers on different papers are both between
\* their sort and their switch, each with its own slices
C19_Witness ==
    \E g1, g2 \in Goroutines :
        /\ g1 # g2
        /\ calls[g1].pc = "compute" /\ calls[g2].pc = "compute"
        /\ calls[g1].args = <<35, 80, 55>>
        /\ calls[g2].args = <<70, 65, 60, 55>>
        /\ heap[Alloc(g1, "sortedCodes")] = <<1, 5, 9>>
        /\ heap[Alloc(g2, "sortedCodes")] = <<2, 3, 4, 5>>

GradeRank(g) ==
    CASE g = "A" -> 1 [] g = "B" -> 2 [] g = "C" -> 3
      [] g = "D" -> 4 [] g = "E" -> 5 [] g = "O" -> 6

\* the paper that differs between the two calls
RaisedPaper == CHOOSE i \in 1..Len(args[1]) : args[1][i] # args[2][i]

\* paper i of marks is not among the two best: two other papers have codes
\* at least as good
NotAmongBestTwo(marks, i) ==
    Cardinality({j \in 1..Len(marks) :
                    j # i /\ CodeOfMark(marks[j]) <= CodeOfMark(marks[i])}) >= 2

\* C30: for 2, 3 or 4 papers, raising the mark of one paper never gives a
\* worse grade, and lowering a paper that is not among the two best leaves
\* the grade as it is.
C30_MonotoneInMarks ==
    Returned("ComputeGradeFromPapers, one mark raised") =>
        /\ GradeRank(res[2].FinalGrade) <= GradeRank(res[1].FinalGrade)
        /\ NotAmongBestTwo(args[2], RaisedPaper) =>
              res[1].FinalGrade = res[2].FinalGrade

\* raising the worst of three papers above the others improved the grade,
\* from C to A
C30_Witness ==
    /\ Returned("ComputeGradeFromPapers, one mark raised")
    /\ args = <<(<<35, 45, 55>>), (<<75, 45, 55>>)>>
    /\ res[1].FinalGrade = "C" /\ res[2].FinalGrade = "A"

\* the request of client c is for the key of row r
ForKeyOf(q, r) ==
    /\ q.student_id = r.student_id /\ q.subject_id = r.subject_id
    /\ q.term = r.term /\ q.year = r.year

RowsOf(q) == {r \in subject_results : r.id = q.id}

\* C23: data is isolated by school: a request of a user of one school (not
\* a system admin) deletes no subject result and reads no class of another
\* school.
C23_IsolatedBySchool ==
    \A c \in Clients :
        (requests[c].pc = "done" /\ requests[c].status = 200) =>
            /\ (requests[c].handler = "Delete" /\ requests[c].tenant_school_id # "")
                  => \A r \in RowsOf(requests[c]) :
                        r.school_id = requests[c].tenant_school_id
            /\ requests[c].handler = "ClassHandler.Get"
                  => requests[c].body.school_id = requests[c].tenant_school_id

\* C24: after any sequence of user Create, Update and UpdateUserRole
\* operations, every user whose role is not system_admin has a school, and
\* a system_admin just created through Create has none.
C24_NonSystemAdminHasSchool ==
    /\ \A u \in db.users : u.role # "system_admin" => u.school_id # NoSchool
    /\ (op = "UserHandler.Create" /\ res.status = 201 /\ res.body.role = "system_admin")
         => res.body.school_id = NoSchool

\* C28: a user created by CreateSchoolAdmin or CreateTeacher, while active,
\* logs in with its email and the default password recorded in its Meta:
\* Login does not answer ErrInvalidCredentials.
C28_DefaultPasswordLogsIn ==
    op = "Login" =>
        \A u \in db.users :
            (/\ Lower(u.email) = Lower(args.email)
             /\ u.is_active
             /\ "default_password" \in DOMAIN u.meta
             /\ u.meta.default_password = args.password)
                => res.err = NoError

\* session s made a RefreshTokens call that returned
RefreshReturned(s) == sessions[s].pc = "done" /\ sessions[s].op = "RefreshTokens"

\* C25: a refresh token is single-use: no two RefreshTokens calls succeed
\* with the same token, concurrent or not, and a call with a token that was
\* revoked when the call read it fails with ErrTokenRevoked.
C25_RefreshTokenSingleUse ==
    /\ \A s, t \in Sessions :
          (/\ s # t
           /\ RefreshReturned(s) /\ sessions[s].err = NoError
           /\ RefreshReturned(t) /\ sessions[t].err = NoError)
              => sessions[s].args # sessions[t].args
    /\ \A s \in Sessions :
          (RefreshReturned(s) /\ sessions[s].was_revoked)
              => sessions[s].err = ErrTokenRevoked

\* no two rows of the bag agree on the columns of the key
OnePerKey(table, Key(_)) ==
    \A r \in BagToSet(table) :
        /\ CopiesIn(r, table) <= 1
        /\ \A q \in BagToSet(table) : Key(q) = Key(r) => q = r

ClassKey(r) == <<r.school_id, r.level, r.year, r.term>>

GradingRuleKey(r) == <<r.school_id, r.level>>

SubjectKey(r) == <<r.school_id, r.name, r.level>>

\* C26: after any interleaving of SetupSchool and SetupNewLevels calls there
\* is at most one class per (school, level, year, term), one grading rule
\* per (school, level) and one subject per (school, name, level).
C26_SetupCreatesNoDuplicates ==
    /\ OnePerKey(db.classes, ClassKey)
    /\ OnePerKey(db.grading_rules, GradingRuleKey)
    /\ OnePerKey(db.subjects, SubjectKey)

\* C27: a SetupSchool call for a school that was already set up for the
\* same levels when the call began succeeds and creates nothing.
C27_SetupSchoolIdempotent ==
    \A s \in Sessions :
        (/\ sessions[s].pc = "done"
         /\ sessions[s].op = "SetupSchool"
         /\ sessions[s].was_set_up)
            => /\ sessions[s].err = NoError
               /\ sessions[s].created = NoRows
====
